---- MODULE Spec2Model ----
(***************************************************************************)
(* Model of zephyr/backend/discretization.py (Python 2: map() returns a    *)
(* list): BaseDiscretization's cached solver, DiscretizationWrapper's      *)
(* configuration fan-out and subproblem cache, and MultiFreq.__mul__ in    *)
(* its sequential (lazy generator) and parallel (multiprocessing.Pool)     *)
(* modes.                                                                  *)
(*                                                                         *)
(* Numbers are elements of the field Z/5Z so that a solve (the action of   *)
(* the inverse of a 1x1 operator) and the scaling are real arithmetic.     *)
(* An optional Python attribute is a sequence of length 0 (absent / None)  *)
(* or 1 (present).                                                         *)
(***************************************************************************)
EXTENDS Integers, Sequences, FiniteSets, TLC

\* ---------------------------------------------------------------- bounds
MaxN == 2            \* longest frequency list
MaxCalls == 2        \* multiply calls in one behaviour
MaxDirect == 2       \* direct solves (D * rhs, D(rhs)) in one behaviour
MaxMut == 2          \* mutations of yielded configurations in one behaviour

\* ------------------------------------------------------- program constants
PARTASK_TIMEOUT == 60

\* ------------------------------------------------------------ value sets
Field == 0 .. 4
Freqs == {1, 2}
Vec == {1, 2}
ScaleVals == {2, 3}
None == << >>
Some(x) == << x >>
Fates == {"ok", "fail", "hang"}

SeqsUpTo(S, n) == UNION {[1 .. k -> S] : k \in 0 .. n}

\* rhs of a multiply call: one shared vector, or a list of vectors
RhsInputs == {[isList |-> FALSE, vec |-> v, list |-> << >>] : v \in Vec}
             \cup {[isList |-> TRUE, vec |-> 0, list |-> l] : l \in SeqsUpTo(Vec, MaxN)}

VARIABLES
    \* ---- the wrapper's attributes and its environment
    PARALLEL,        \* module constant set by the import of multiprocessing
    freqs,           \* MultiFreq.freqs
    _scaleTerm,      \* optional attribute
    _parallel,       \* optional attribute
    systemConfig,    \* address of the base configuration dict
    dicts,           \* the dict objects: address -> (key -> value)
    heap,            \* the value objects dict values refer to (for RefKeys)
    _subProblems,    \* optional attribute: the cached list of object ids
    objs,            \* the live Discretization instances: object id -> instance
    fate,            \* what the solve of subproblem i does: returns, raises, never returns
    rhs,             \* the right-hand side(s) the caller multiplies by
    hasSpUpdates,    \* whether the wrapper's class overrides spUpdates (MultiFreq does)
    ctorRaises,      \* the frequencies for which the discretization constructor raises
    \* ---- the multiply call in progress and its consumer
    pc, mode, subs, i, plist, jobs, completed, pool, nxt, out, err, waited,
    \* ---- the configuration generator and what it has yielded
    gen, yielded,
    \* ---- history
    calls, directs, muts, lastMut, ctorCalls, ctorFirst, accesses,
    lastAccess, prevAccess, done,
    lastErr,         \* what the most recent access of subProblems raised ("none" if nothing)
    ctorLast,        \* the number of constructor calls the most recent access made
    retried          \* whether the access before the most recent one had raised

cfgVars == <<PARALLEL, freqs, _scaleTerm, _parallel, systemConfig, heap, fate, rhs,
             hasSpUpdates, ctorRaises>>
cacheVars == <<_subProblems, objs, dicts, ctorCalls, ctorFirst, accesses, lastAccess, prevAccess,
               lastErr, ctorLast, retried>>
callVars == <<pc, mode, subs, i, plist, jobs, completed, pool, nxt, out, err, waited>>
fanVars == <<gen, yielded, muts, lastMut>>
histVars == <<calls, directs, done>>
vars == <<cfgVars, cacheVars, callVars, fanVars, histVars>>

\* ------------------------------------------------- arithmetic of the field
Mul(a, b) == (a * b) % 5
Inv(a) == CHOOSE b \in Field : Mul(a, b) = 1

\* ------------------------------------------------------- BaseDiscretization
\* The operator A of an instance (built by the concrete subclass from its
\* physical parameters; deterministic for identical parameters).
A(o) == (o.freq + o.c) % 5

\* DirectSolver: (Ainv * r) is the solution x of A x = r
DirectSolverMul(a, r) == Mul(Inv(a), r)

\* The discretization constructor: stores 'c' and 'freq' of the configuration
\* (initMap); no solver yet.
disc(cfg) == [freq |-> cfg["freq"], c |-> cfg["c"], hasAinv |-> FALSE,
              AinvA |-> 0, created |-> 0, solves |-> 0]

\* property Ainv: the instance after the access
AinvNoCache(o) == [o EXCEPT !.hasAinv = TRUE, !.AinvA = A(o), !.created = @ + 1]
Ainv(o) == IF ~o.hasAinv
           THEN [o EXCEPT !.hasAinv = TRUE, !.AinvA = A(o), !.created = @ + 1]
           ELSE o

\* __mul__ / __call__: the instance after the solve, and the value returned
Disc_mul_objTwice(o) == [Ainv(o) EXCEPT !.solves = @ + 2]
Disc_mul_obj(o) == [Ainv(o) EXCEPT !.solves = @ + 1]
Disc_mul(o, r) == DirectSolverMul(Ainv(o).AinvA, r)

\* ---------------------------------------------------- DiscretizationWrapper
scaleTermIgnored == IF _scaleTerm = None THEN 1 ELSE 1
scaleTerm == IF _scaleTerm = None THEN 1 ELSE _scaleTerm[1]

RefKeys == {"geom"}

\* dict.update
UpdateBaseWins(d, upd) == [k \in DOMAIN d \cup DOMAIN upd |-> IF k \in DOMAIN d THEN d[k] ELSE upd[k]]
Update(d, upd) == [k \in DOMAIN d \cup DOMAIN upd |-> IF k \in DOMAIN upd THEN upd[k] ELSE d[k]]

\* copy.copy of the dict at address a: a new dict object holding the same values
\* (a value that is a reference still refers to the same value object)
copyAlias(store, a) == [addr |-> a, store |-> store]
copy(store, a) == [addr |-> Len(store) + 1, store |-> Append(store, store[a])]

\* duplicateUpdate(spu): nsc = copy.copy(self.systemConfig); nsc.update(spu)
duplicateUpdate(store, spu) ==
    LET nsc == copy(store, systemConfig)
    IN  [addr |-> nsc.addr, store |-> [nsc.store EXCEPT ![nsc.addr] = Update(@, spu)]]

\* spUpdates of the base class raises NotImplementedError; MultiFreq overrides it
spUpdatesRaises == ~hasSpUpdates

\* MultiFreq.spUpdates
spUpdatesReversed == [k \in 1 .. Len(freqs) |-> [freq |-> freqs[Len(freqs) + 1 - k]]]
spUpdates == [k \in 1 .. Len(freqs) |-> [freq |-> freqs[k]]]

\* the constructor raises for this configuration
discRaises(cfg) == cfg["freq"] \in ctorRaises

\* map(self.disc, self._spConfigs): each configuration is yielded and handed to
\* the constructor in turn; a constructor that raises ends the map, and the
\* instances built so far are dropped with it (calls counts the constructor
\* calls made, the raising one included)
RECURSIVE mapDisc(_, _, _)
mapDisc(store, upd, k) ==
    IF k > Len(upd)
    THEN [new |-> << >>, store |-> store, raised |-> FALSE, calls |-> 0]
    ELSE LET y == duplicateUpdate(store, upd[k])
             rest == mapDisc(y.store, upd, k + 1)
         IN  IF discRaises(y.store[y.addr])
             THEN [new |-> << >>, store |-> y.store, raised |-> TRUE, calls |-> 1]
             ELSE [new |-> << disc(y.store[y.addr]) >> \o rest.new, store |-> rest.store,
                   raised |-> rest.raised, calls |-> 1 + rest.calls]

\* Identities of n new objects: addresses no live object has
FreshIds(n) ==
    LET unused == (1 .. (Cardinality(DOMAIN objs) + n)) \ DOMAIN objs
    IN  [k \in 1 .. n |-> CHOOSE x \in unused : Cardinality({y \in unused : y < x}) = k - 1]

\* Reference counting: an instance lives while the cached list (cache) or the
\* list a multiply call iterates over (held) refers to it
IdsOf(l) == {l[k] : k \in 1 .. Len(l)}
Collect(o, cache, held) ==
    [d \in DOMAIN o \cap ((IF cache = None THEN {} ELSE IdsOf(cache[1])) \cup IdsOf(held)) |-> o[d]]

\* What an access of subProblems that raised leaves: nothing is assigned, the
\* instances built before the error are garbage
Raised(e, n) == [val |-> << >>, objs |-> objs, dicts |-> dicts, ctor |-> n, raised |-> e]

\* property subProblems: the value returned, the instances and the dicts after
\* the access (the yielded dicts are dropped once the constructors have read
\* them), the number of constructor calls made by the access, and the error
\* it raised if any (self.spUpdates is read when the generator _spConfigs is
\* created, map consumes the generator before anything is assigned)
subProblemsBuild ==
    LET m == mapDisc(dicts, spUpdates, 1)
        ids == FreshIds(Len(m.new))
    IN  IF spUpdatesRaises THEN Raised("NotImplementedError", 0)
        ELSE IF m.raised THEN Raised("CtorError", m.calls)
        ELSE
        [val |-> ids,
         objs |-> [d \in DOMAIN objs \cup {ids[k] : k \in 1 .. Len(ids)} |->
                     IF d \in DOMAIN objs
                     THEN objs[d]
                     ELSE m.new[CHOOSE k \in 1 .. Len(ids) : ids[k] = d]],
         dicts |-> SubSeq(m.store, 1, Len(dicts)),
         ctor |-> Len(m.new),
         raised |-> "none"]
subProblemsAlwaysBuild == subProblemsBuild
subProblems == IF _subProblems = None
               THEN subProblemsBuild
               ELSE [val |-> _subProblems[1], objs |-> objs, dicts |-> dicts, ctor |-> 0,
                     raised |-> "none"]

\* self._subProblems = map(...): the attribute after the access
AssignedPartial(r) == Some(r.val)
Assigned(r) == IF r.raised = "none" THEN Some(r.val) ELSE _subProblems

\* ---------------------------------------------------------------- MultiFreq
\* property parallel: PARALLEL and getattr(self, '_parallel', True)
parallelFlagOnly == IF _parallel = None THEN TRUE ELSE _parallel[1]
parallel == PARALLEL /\ (IF _parallel = None THEN TRUE ELSE _parallel[1])

\* getRHS(i): indices are 1-based here; a list index out of range raises
getRHSRaisesOffByOne(r, k) == r.isList /\ k >= Len(r.list)
getRHSRaises(r, k) == r.isList /\ k > Len(r.list)
getRHSFirst(r, k) == IF r.isList THEN r.list[1] ELSE r.vec
getRHS(r, k) == IF r.isList THEN r.list[k] ELSE r.vec

\* ------------------------------------------------------------------- Init
NoDone == [m \in {"seq", "par"} |-> None]

InitCall ==
    /\ pc = "idle" /\ mode = "none"
    /\ subs = << >> /\ i = 1 /\ plist = << >> /\ jobs = << >> /\ completed = << >>
    /\ pool = "none" /\ nxt = 1 /\ out = << >> /\ err = "none" /\ waited = 0

InitCache ==
    /\ _subProblems = None /\ objs = << >> /\ ctorCalls = 0 /\ ctorFirst = 0
    /\ accesses = 0 /\ lastAccess = None /\ prevAccess = None
    /\ lastErr = "none" /\ ctorLast = 0 /\ retried = FALSE

InitHist ==
    /\ calls = 0 /\ directs = 0 /\ done = NoDone

InitFanIdle ==
    /\ gen = [active |-> FALSE, upd |-> << >>, k |-> 1] /\ yielded = << >>
    /\ muts = 0 /\ lastMut = [j |-> 0, kind |-> "none"]

BaseConfigs == {[c |-> 1, geom |-> 1], [c |-> 1, geom |-> 1, freq |-> 3]}

Init ==
    /\ PARALLEL \in BOOLEAN
    /\ freqs \in SeqsUpTo(Freqs, MaxN)
    /\ _scaleTerm \in {None} \cup {Some(s) : s \in ScaleVals}
    /\ _parallel \in {None, Some(TRUE), Some(FALSE)}
    /\ systemConfig = 1
    /\ dicts = << [c |-> 1, geom |-> 1] >>
    /\ heap = << 3 >>
    /\ fate \in [1 .. Len(freqs) -> Fates]
    /\ rhs \in RhsInputs
    /\ hasSpUpdates = TRUE /\ ctorRaises = {}
    /\ InitCache /\ InitCall /\ InitFanIdle /\ InitHist

\* ------------------------------------------------ access of W.subProblems
\* The effect of one evaluation of the property on the cache and its history.
\* (accesses, lastAccess, prevAccess, ctorCalls and ctorFirst record the accesses
\* that returned; lastErr, ctorLast and retried record the most recent one,
\* returned or not)
AccessEffect ==
    /\ _subProblems' = Assigned(subProblems)
    /\ dicts' = subProblems.dicts
    /\ lastErr' = subProblems.raised
    /\ ctorLast' = subProblems.ctor
    /\ retried' = (lastErr # "none")
    /\ IF subProblems.raised = "none"
       THEN /\ ctorCalls' = ctorCalls + subProblems.ctor
            /\ ctorFirst' = IF accesses = 0 THEN subProblems.ctor ELSE ctorFirst
            /\ accesses' = IF accesses < 2 THEN accesses + 1 ELSE accesses
            /\ prevAccess' = lastAccess
            /\ lastAccess' = Some(subProblems.val)
       ELSE UNCHANGED <<ctorCalls, ctorFirst, accesses, prevAccess, lastAccess>>

CallerFree == pc \in {"idle", "iter", "done"}

AccessSubProblems ==
    /\ CallerFree
    /\ AccessEffect
    /\ objs' = subProblems.objs
    /\ UNCHANGED <<cfgVars, callVars, fanVars, histVars>>

\* The cache base clears the attributes named by cacheItems.
Invalidate ==
    /\ CallerFree
    /\ _subProblems # None
    /\ _subProblems' = None
    /\ objs' = Collect(objs, None, subs)
    /\ accesses' = 0 /\ lastAccess' = None /\ prevAccess' = None
    /\ lastErr' = "none" /\ ctorLast' = 0 /\ retried' = FALSE
    /\ ctorCalls' = 0 /\ ctorFirst' = 0
    /\ UNCHANGED <<cfgVars, dicts, callVars, fanVars, calls, directs, done>>

\* What made the constructor raise goes away (the constructor is the caller's
\* class: its failure can be transient).
CtorRecovers ==
    /\ CallerFree
    /\ ctorRaises # {}
    /\ ctorRaises' = {}
    /\ UNCHANGED <<PARALLEL, freqs, _scaleTerm, _parallel, systemConfig, heap, fate, rhs,
                   hasSpUpdates, cacheVars, callVars, fanVars, histVars>>

\* The caller assigns the plain attribute the property parallel reads.
SetParallel(v) ==
    /\ pc \in {"idle", "done"}
    /\ v # _parallel
    /\ _parallel' = v
    /\ UNCHANGED <<PARALLEL, freqs, _scaleTerm, systemConfig, heap, fate, rhs, hasSpUpdates, ctorRaises,
                   cacheVars, callVars, fanVars, histVars>>

\* D * r or D(r) on the k-th cached subproblem
DiscSolve(k, r) ==
    /\ CallerFree
    /\ directs < MaxDirect
    /\ _subProblems # None
    /\ k \in 1 .. Len(_subProblems[1])
    /\ directs' = directs + 1
    /\ objs' = [objs EXCEPT ![_subProblems[1][k]] = Disc_mul_obj(@)]
    /\ pc' = IF fate[k] = "hang" THEN "hung" ELSE pc
    /\ UNCHANGED <<cfgVars, _subProblems, dicts, ctorCalls, ctorFirst, accesses, lastAccess,
                   prevAccess, lastErr, ctorLast, retried, mode, subs, i, plist, jobs, completed, pool, nxt, out,
                   err, waited, fanVars, calls, done>>

\* ------------------------------------------------------ MultiFreq.__mul__
Ended(m, r, o, e) == [done EXCEPT ![m] = Some([rhs |-> r, out |-> o, err |-> e])]

\* The call up to the first suspension point: the pool is created, the subproblem
\* list is read (the outermost iterable of either loop is evaluated at once); an
\* access that raises ends the call there.
MultiFreq_mul ==
    /\ CallerFree
    /\ hasSpUpdates
    /\ calls < MaxCalls
    /\ calls' = calls + 1
    /\ AccessEffect
    /\ subs' = subProblems.val
    /\ objs' = Collect(subProblems.objs, Assigned(subProblems), subProblems.val)
    /\ mode' = IF parallel THEN "par" ELSE "seq"
    /\ pool' = IF parallel THEN "open" ELSE "none"
    /\ pc' = IF subProblems.raised # "none" THEN "done"
             ELSE IF parallel THEN "submit" ELSE "iter"
    /\ i' = 1 /\ plist' = << >> /\ jobs' = << >> /\ completed' = << >>
    /\ nxt' = 1 /\ out' = << >> /\ err' = subProblems.raised /\ waited' = 0
    /\ UNCHANGED <<cfgVars, fanVars, directs, done>>

\* pool.apply_async(sp, (getRHS(i),)): the job carries a serialized copy of sp
\* as it is now, and of its right-hand side
NewJobSharedRhs(k) == [sub |-> objs[subs[k]], r |-> getRHSFirst(rhs, k), pos |-> k,
                       st |-> "pending", val |-> 0]
NewJob(k) == [sub |-> objs[subs[k]], r |-> getRHS(rhs, k), pos |-> k,
              st |-> "pending", val |-> 0]

\* for i, sp in enumerate(self.subProblems): the loop ends when the list is exhausted
LoopEndsAfterOne == i > Len(subs) \/ i > 1
LoopEnded == i > Len(subs)

\* One turn of the submission loop
Submit ==
    /\ pc = "submit" /\ ~LoopEnded
    /\ IF getRHSRaises(rhs, i)
       THEN /\ pc' = "done" /\ err' = "IndexError"
            /\ done' = Ended(mode, rhs, out, "IndexError")
            /\ UNCHANGED <<i, plist, jobs>>
       ELSE /\ jobs' = Append(jobs, NewJob(i))
            /\ plist' = Append(plist, Len(jobs) + 1)
            /\ i' = i + 1
            /\ UNCHANGED <<pc, err, done>>
    /\ UNCHANGED <<cfgVars, cacheVars, mode, subs, completed, pool, nxt, out, waited,
                   fanVars, calls, directs>>

\* After the loop: the generator u is created (nothing of it runs), pool.close()
PoolClose ==
    /\ pc = "submit" /\ LoopEnded
    /\ pool' = "closed" /\ pc' = "join"
    /\ UNCHANGED <<cfgVars, cacheVars, mode, subs, i, plist, jobs, completed, nxt, out,
                   err, waited, fanVars, histVars>>

\* pool.join() returns when every worker has exited, that is when every submitted
\* job has finished; then the call returns u.
PoolJoin ==
    /\ pc = "join"
    /\ \A j \in 1 .. Len(jobs) : jobs[j].st # "pending"
    /\ pool' = "joined" /\ pc' = "iter"
    /\ UNCHANGED <<cfgVars, cacheVars, mode, subs, i, plist, jobs, completed, nxt, out,
                   err, waited, fanVars, histVars>>

\* What a worker makes of a job: sp(rhs) runs once on the worker's copy of the
\* subproblem (creating that copy's solver if the copy carries none); the value
\* or the exception is kept in the job's result handle.
WorkerSwallowsFailure(job) ==
    [job EXCEPT !.st = "done",
                !.val = IF fate[job.pos] = "ok" THEN Disc_mul(job.sub, job.r) ELSE 0,
                !.sub = Disc_mul_obj(job.sub)]
Worker(job) ==
    IF fate[job.pos] = "ok"
    THEN [job EXCEPT !.st = "done", !.val = Disc_mul(job.sub, job.r),
                     !.sub = Disc_mul_obj(job.sub)]
    ELSE [job EXCEPT !.st = "failed", !.sub = Disc_mul_obj(job.sub)]

\* The caller's instances after a worker ran a job: the worker is another
\* process and what it writes on its copy never reaches them
ParentAfterShared(os, job) == [os EXCEPT ![subs[job.pos]] = Disc_mul_obj(@)]
ParentAfter(os, job) == os

\* A worker finishes job j, working on its own copy of the subproblem.
JobRun(j) ==
    /\ j \in 1 .. Len(jobs)
    /\ jobs[j].st = "pending"
    /\ fate[jobs[j].pos] # "hang"
    /\ jobs' = [jobs EXCEPT ![j] = Worker(jobs[j])]
    /\ objs' = ParentAfter(objs, jobs[j])
    /\ completed' = Append(completed, j)
    /\ UNCHANGED <<cfgVars, _subProblems, dicts, ctorCalls, ctorFirst, accesses, lastAccess,
                   prevAccess, lastErr, ctorLast, retried, pc, mode, subs, i, plist, pool, nxt, out, err,
                   waited, fanVars, histVars>>

\* The handle the k-th element of u waits on
HandleByCompletion(k) == IF k <= Len(completed) THEN completed[k] ELSE plist[k]
Handle(k) == plist[k]

\* next(u) in parallel mode: scaleTerm * p.get(PARTASK_TIMEOUT)
PullPar ==
    /\ pc = "iter" /\ mode = "par"
    /\ IF nxt > Len(plist)
       THEN /\ pc' = "done" /\ done' = Ended(mode, rhs, out, "none")
            /\ UNCHANGED <<nxt, out, err, waited>>
       ELSE LET p == jobs[Handle(nxt)] IN
            CASE p.st = "done" ->
                   /\ out' = Append(out, Mul(scaleTerm, p.val))
                   /\ nxt' = nxt + 1
                   /\ UNCHANGED <<pc, err, waited, done>>
              [] p.st = "failed" ->
                   /\ pc' = "done" /\ err' = "SolveError"
                   /\ done' = Ended(mode, rhs, out, "SolveError")
                   /\ UNCHANGED <<nxt, out, waited>>
              [] p.st = "pending" ->
                   /\ waited' = PARTASK_TIMEOUT
                   /\ pc' = "done" /\ err' = "TimeoutError"
                   /\ done' = Ended(mode, rhs, out, "TimeoutError")
                   /\ UNCHANGED <<nxt, out>>
    /\ UNCHANGED <<cfgVars, cacheVars, mode, subs, i, plist, jobs, completed, pool,
                   fanVars, calls, directs>>

\* next(u) in sequential mode: scaleTerm * (sp * getRHS(i))
PullSeq ==
    /\ pc = "iter" /\ mode = "seq"
    /\ IF nxt > Len(subs)
       THEN /\ pc' = "done" /\ done' = Ended(mode, rhs, out, "none")
            /\ UNCHANGED <<nxt, out, err, objs>>
       ELSE IF getRHSRaises(rhs, nxt)
       THEN /\ pc' = "done" /\ err' = "IndexError"
            /\ done' = Ended(mode, rhs, out, "IndexError")
            /\ UNCHANGED <<nxt, out, objs>>
       ELSE LET o == objs[subs[nxt]] IN
            /\ objs' = [objs EXCEPT ![subs[nxt]] = Disc_mul_obj(o)]
            /\ CASE fate[nxt] = "ok" ->
                      /\ out' = Append(out, Mul(scaleTerm, Disc_mul(o, getRHS(rhs, nxt))))
                      /\ nxt' = nxt + 1
                      /\ UNCHANGED <<pc, err, done>>
                 [] fate[nxt] = "fail" ->
                      /\ pc' = "done" /\ err' = "SolveError"
                      /\ done' = Ended(mode, rhs, out, "SolveError")
                      /\ UNCHANGED <<nxt, out>>
                 [] fate[nxt] = "hang" ->
                      /\ pc' = "hung"
                      /\ UNCHANGED <<nxt, out, err, done>>
    /\ UNCHANGED <<cfgVars, _subProblems, dicts, ctorCalls, ctorFirst, accesses, lastAccess,
                   prevAccess, lastErr, ctorLast, retried, mode, subs, i, plist, jobs, completed, pool, waited,
                   fanVars, calls, directs>>

\* ------------------------------------------ the dispatch specification
Next ==
    \/ \E v \in {None, Some(TRUE), Some(FALSE)} : SetParallel(v)
    \/ MultiFreq_mul
    \/ Submit
    \/ PoolClose
    \/ PoolJoin
    \/ \E j \in 1 .. MaxN : JobRun(j)
    \/ PullPar
    \/ PullSeq

Spec == Init /\ [][Next]_vars

\* The same program with the scheduling the runtime gives: a started call keeps
\* running, workers keep working, the consumer keeps pulling.  Nothing obliges
\* the caller to start a call or to reassign an attribute.
InitLive ==
    /\ Init
    /\ PARALLEL /\ _scaleTerm = None /\ _parallel = None

LiveSpec ==
    /\ InitLive /\ [][Next]_vars
    /\ WF_vars(Submit) /\ WF_vars(PoolClose) /\ WF_vars(PoolJoin)
    /\ \A j \in 1 .. MaxN : WF_vars(JobRun(j))
    /\ WF_vars(PullPar) /\ WF_vars(PullSeq)

\* --------------------------------- the subproblem-cache specification
\* The wrapper used through its cache in one process: accesses of subProblems,
\* invalidation, direct solves on cached subproblems, and sequential multiply
\* calls (parallel=False), whose solves run on the cached instances themselves.

InitCacheSpec ==
    /\ PARALLEL = TRUE
    /\ freqs \in SeqsUpTo(Freqs, MaxN)
    /\ _scaleTerm = None
    /\ _parallel = Some(FALSE)
    /\ systemConfig = 1
    /\ dicts \in {<< b >> : b \in BaseConfigs}
    /\ heap = << 3 >>
    /\ fate \in [1 .. Len(freqs) -> {"ok", "fail"}]
    /\ rhs = [isList |-> FALSE, vec |-> 1, list |-> << >>]
    /\ hasSpUpdates = TRUE /\ ctorRaises = {}
    /\ InitCache /\ InitCall /\ InitFanIdle /\ InitHist

NextCache ==
    \/ AccessSubProblems
    \/ Invalidate
    \/ \E k \in 1 .. MaxN, r \in Vec : DiscSolve(k, r)
    \/ MultiFreq_mul
    \/ PullSeq

SpecCache == InitCacheSpec /\ [][NextCache]_vars

\* ------------------------------------------ the fan-out specification
\* W._spConfigs used directly: the generator is created, yields one
\* configuration per step, and the caller mutates what it was handed.

\* What a configuration shows to a reader: references followed
View(a) == [k \in DOMAIN dicts[a] |-> IF k \in RefKeys THEN heap[dicts[a][k]] ELSE dicts[a][k]]

\* property _spConfigs: self.spUpdates is read when the generator is created
SpConfigsStart ==
    /\ ~gen.active /\ yielded = << >>
    /\ ~spUpdatesRaises
    /\ gen' = [active |-> TRUE, upd |-> spUpdates, k |-> 1]
    /\ UNCHANGED <<cfgVars, cacheVars, callVars, yielded, muts, lastMut, histVars>>

\* next() of the generator: duplicateUpdate(spu) for the next override
SpConfigsNext ==
    /\ gen.active
    /\ IF gen.k > Len(gen.upd)
       THEN /\ gen' = [gen EXCEPT !.active = FALSE]
            /\ UNCHANGED <<dicts, yielded>>
       ELSE LET y == duplicateUpdate(dicts, gen.upd[gen.k])
            IN  /\ dicts' = y.store
                /\ yielded' = Append(yielded, y.addr)
                /\ gen' = [gen EXCEPT !.k = @ + 1]
    /\ UNCHANGED <<cfgVars, _subProblems, objs, ctorCalls, ctorFirst, accesses, lastAccess,
                   prevAccess, lastErr, ctorLast, retried, callVars, muts, lastMut, histVars>>

\* cfg[key] = v on the j-th yielded configuration; for a key holding a value
\* object, v is a new object
MutateKey(j, key, v) ==
    /\ muts < MaxMut
    /\ j \in 1 .. Len(yielded)
    /\ muts' = muts + 1
    /\ lastMut' = [j |-> j, kind |-> "key"]
    /\ IF key \in RefKeys
       THEN /\ heap' = Append(heap, v)
            /\ dicts' = [dicts EXCEPT ![yielded[j]] = Update(@, key :> (Len(heap) + 1))]
       ELSE /\ heap' = heap
            /\ dicts' = [dicts EXCEPT ![yielded[j]] = Update(@, key :> v)]
    /\ UNCHANGED <<PARALLEL, freqs, _scaleTerm, _parallel, systemConfig, fate, rhs,
                   hasSpUpdates, ctorRaises, lastErr, ctorLast, retried,
                   _subProblems, objs, ctorCalls, ctorFirst, accesses, lastAccess,
                   prevAccess, callVars, gen, yielded, histVars>>

\* cfg[key][...] = v: the value object the j-th yielded configuration refers to
\* is changed in place
MutateNested(j, key, v) ==
    /\ muts < MaxMut
    /\ j \in 1 .. Len(yielded)
    /\ key \in RefKeys /\ key \in DOMAIN dicts[yielded[j]]
    /\ heap[dicts[yielded[j]][key]] # v
    /\ muts' = muts + 1
    /\ lastMut' = [j |-> j, kind |-> "nested"]
    /\ heap' = [heap EXCEPT ![dicts[yielded[j]][key]] = v]
    /\ UNCHANGED <<PARALLEL, freqs, _scaleTerm, _parallel, systemConfig, fate, rhs,
                   hasSpUpdates, ctorRaises, cacheVars, callVars, gen, yielded, histVars>>

MutKeys == {"c", "freq", "geom", "extra"}
MutVals == {7, 8}

InitFan ==
    /\ PARALLEL = TRUE
    /\ freqs \in SeqsUpTo(Freqs, MaxN)
    /\ _scaleTerm = None
    /\ _parallel = None
    /\ systemConfig = 1
    /\ dicts \in {<< b >> : b \in BaseConfigs}
    /\ heap = << 3 >>
    /\ fate = [k \in 1 .. Len(freqs) |-> "ok"]
    /\ rhs = [isList |-> FALSE, vec |-> 1, list |-> << >>]
    /\ hasSpUpdates = TRUE /\ ctorRaises = {}
    /\ InitCache /\ InitCall /\ InitFanIdle /\ InitHist

NextFan ==
    \/ SpConfigsStart
    \/ SpConfigsNext
    \/ \E j \in 1 .. MaxN, key \in MutKeys, v \in MutVals : MutateKey(j, key, v)
    \/ \E j \in 1 .. MaxN, key \in RefKeys, v \in MutVals : MutateNested(j, key, v)

SpecFan == InitFan /\ [][NextFan]_vars

\* ------------------------------------------ the lifecycle specification
\* Every operation of a wrapper next to the invalidation of its cache: accesses
\* of subProblems that return or raise (a class without spUpdates, a constructor
\* that raises for some frequencies), multiply in either mode and the
\* consumption of its output, and the configuration generator.  The solves
\* themselves succeed here: their failures are the dispatch specification's.
InitLife ==
    /\ PARALLEL = TRUE
    /\ freqs \in SeqsUpTo(Freqs, MaxN)
    /\ _scaleTerm = None
    /\ _parallel \in {None, Some(FALSE)}
    /\ systemConfig = 1
    /\ dicts = << [c |-> 1, geom |-> 1] >>
    /\ heap = << 3 >>
    /\ fate = [k \in 1 .. Len(freqs) |-> "ok"]
    /\ rhs = [isList |-> FALSE, vec |-> 1, list |-> << >>]
    /\ hasSpUpdates \in BOOLEAN
    /\ ctorRaises \in SUBSET Freqs
    /\ InitCache /\ InitCall /\ InitFanIdle /\ InitHist

NextLife ==
    \/ AccessSubProblems
    \/ Invalidate
    \/ CtorRecovers
    \/ MultiFreq_mul
    \/ Submit
    \/ PoolClose
    \/ PoolJoin
    \/ \E j \in 1 .. MaxN : JobRun(j)
    \/ PullPar
    \/ PullSeq
    \/ SpConfigsStart
    \/ SpConfigsNext

SpecLife == InitLife /\ [][NextLife]_vars

\* ======================================================================
\* Properties of the dispatch (checked under Spec unless said otherwise)
\* ======================================================================

\* The job submitted for subproblem k of the current call
JobFor(k) == CHOOSE j \in 1 .. Len(jobs) : jobs[j].pos = k

\* C1: in parallel mode, whatever the order in which the jobs complete, the
\* k-th element delivered to the caller is the (scaled) result of the job that
\* was submitted for subproblem k.
C1_SubmissionOrder ==
    mode = "par" =>
        \A k \in 1 .. Len(out) :
            /\ \E j \in 1 .. Len(jobs) : jobs[j].pos = k
            /\ jobs[JobFor(k)].st = "done"
            /\ jobs[JobFor(k)].sub.freq = objs[subs[k]].freq
            /\ out[k] = Mul(scaleTerm, jobs[JobFor(k)].val)

\* C1 witness: the second job completed before the first, both elements were
\* delivered and they differ.
C1_Witness ==
    /\ mode = "par" /\ completed = << 2, 1 >>
    /\ Len(out) = 2 /\ out[1] # out[2]

\* The right-hand side subproblem k is to be solved against
RhsOf(r, k) == IF r.isList THEN r.list[k] ELSE r.vec

\* x is the solution of (operator of subproblem k of the call) x = rhs_k
IsSolveOf(x, k) == Mul(A(objs[subs[k]]), x) = RhsOf(rhs, k)

\* C2: a multiply that ended without error has delivered exactly N elements,
\* and element k is scaleTerm times the solution of subproblem k against rhs_k
\* (the shared vector, or rhs[k] of a list), scaleTerm being 1 when unset.
C2_ScaledSolves ==
    (pc = "done" /\ err = "none") =>
        /\ Len(out) = Len(freqs)
        /\ \A k \in 1 .. Len(out) :
              \E x \in Field :
                  /\ IsSolveOf(x, k)
                  /\ out[k] = IF _scaleTerm = None THEN x ELSE Mul(_scaleTerm[1], x)

\* C2 witness: a sequential call with a list rhs of distinct vectors and
\* scaleTerm = 3 delivered both elements.
C2_Witness ==
    /\ pc = "done" /\ err = "none" /\ mode = "seq"
    /\ _scaleTerm = Some(3) /\ rhs.isList /\ rhs.list = << 1, 2 >>
    /\ Len(out) = 2

\* A job of the current call that will never complete has been submitted
HungJob == \E j \in 1 .. Len(jobs) : jobs[j].st = "pending" /\ fate[jobs[j].pos] = "hang"

\* C3 (checked under LiveSpec): in parallel mode, once every job is submitted
\* and one of them never completes, the call ends with a timeout error.
C3_TimeoutNotHang ==
    (mode = "par" /\ pc = "join" /\ HungJob) ~> (pc = "done" /\ err = "TimeoutError")

ShortList(r) == r.isList /\ Len(r.list) < Len(freqs)
Mismatch(r) == r.isList /\ Len(r.list) # Len(freqs)

\* C4 as stated: a call with a list rhs of another length than the number of
\* subproblems submits no job and delivers no element, and ends in IndexError.
C4_RaisedBeforeDispatch ==
    (mode # "none" /\ Mismatch(rhs)) =>
        /\ Len(jobs) = 0 /\ Len(out) = 0
        /\ pc = "done" => err = "IndexError"

\* C4 amended: IndexError is raised only for a list shorter than the number of
\* subproblems, at subproblem index len(rhs): in parallel mode inside the call,
\* after exactly len(rhs) jobs were submitted and before anything is delivered;
\* in sequential mode when element len(rhs) is pulled, after len(rhs) elements
\* were solved and delivered.  A call with a shorter list never ends well; a
\* longer list raises nothing.
C4_IndexErrorAtFirstMissing ==
    /\ err = "IndexError" =>
          /\ ShortList(rhs)
          /\ mode = "par" => (Len(jobs) = Len(rhs.list) /\ Len(out) = 0 /\ pool = "open")
          /\ mode = "seq" => Len(out) = Len(rhs.list)
    /\ (pc = "done" /\ ShortList(rhs)) =>
          \/ err = "IndexError"
          \/ mode = "seq" /\ err = "SolveError" /\ fate[Len(out) + 1] = "fail"
    /\ (pc = "done" /\ rhs.isList /\ Len(rhs.list) > Len(freqs)) =>
          err \in {"none", "SolveError"}

\* C4 witness: parallel mode, list of one vector for two subproblems: one job
\* was dispatched before the IndexError.
C4_Witness ==
    /\ err = "IndexError" /\ mode = "par" /\ Len(subs) = 2 /\ Len(jobs) = 1

\* C5: in parallel mode the pool is torn down on every exit path of the call,
\* and not before the last result was retrieved.
C5_PoolTornDown ==
    mode = "par" =>
        /\ pc = "done" => pool = "joined"
        /\ pool = "joined" => (pc = "done" \/ nxt > Len(plist))

SameOutcome == done["seq"][1].out = done["par"][1].out

BothEnded == done["seq"] # None /\ done["par"] # None
             /\ done["seq"][1].rhs = done["par"][1].rhs

C7_OneFactorization ==
    \A d \in DOMAIN objs :
        /\ objs[d].created <= 1
        /\ objs[d].solves >= 1 => (objs[d].created = 1 /\ objs[d].hasAinv
                                   /\ objs[d].AinvA = A(objs[d]))
        /\ objs[d].solves = 0 => (objs[d].created = 0 /\ ~objs[d].hasAinv)

\* C7 witness: three solves on one instance (two multiply calls and a direct
\* solve, or the like), one solver.
C7_Witness == \E d \in DOMAIN objs : objs[d].solves >= 3 /\ objs[d].created = 1

\* C8: without an invalidation in between, an access of subProblems returns
\* the list (the same instances) the access before it returned, and the
\* constructor runs during the first access only.
C8_CacheIdempotent ==
    /\ prevAccess # None => lastAccess = prevAccess
    /\ accesses >= 1 => (ctorCalls = ctorFirst /\ _subProblems = lastAccess)

\* C8 witness: after an invalidation during the consumption of a second multiply
\* call's output, two accesses returned the one list of two new instances.
C8_Witness ==
    /\ accesses = 2 /\ calls = 2 /\ pc = "iter"
    /\ Len(lastAccess[1]) = 2 /\ ctorCalls = 2 /\ lastAccess[1] # subs

\* C9: the materialized list has one subproblem per frequency, the k-th built
\* from the configuration whose freq is freqs[k].
C9_OneSubproblemPerFrequency ==
    _subProblems # None =>
        /\ Len(_subProblems[1]) = Len(freqs)
        /\ \A k \in 1 .. Len(freqs) : objs[_subProblems[1][k]].freq = freqs[k]

\* C9 witness: two different frequencies over a base configuration that has a
\* freq of its own.
C9_Witness ==
    /\ _subProblems # None /\ Len(freqs) = 2 /\ freqs[1] # freqs[2]
    /\ "freq" \in DOMAIN dicts[systemConfig]

\* ======================================================================
\* Properties of the fan-out (checked under SpecFan)
\* ======================================================================

Mutated == muts' = muts + 1

\* What the configuration at address a shows after the step
ViewNext(a) == [k \in DOMAIN dicts'[a] |->
                  IF k \in RefKeys THEN heap'[dicts'[a][k]] ELSE dicts'[a][k]]

\* The base configuration and the yielded ones other than the j-th read the same
\* before and after the step
OthersUnchanged(j) ==
    /\ ViewNext(systemConfig) = View(systemConfig)
    /\ \A k \in 1 .. Len(yielded) : k # j => ViewNext(yielded[k]) = View(yielded[k])

\* C10 as stated: no mutation made through a yielded configuration, of a
\* top-level key or of a value object reachable from it, shows in the base
\* configuration or in another yielded configuration.
C10_MutationIsolated == [][Mutated => OthersUnchanged(lastMut'.j)]_vars

\* C10 amended: assigning a top-level key of a yielded configuration shows
\* nowhere else; changing in place a value object it refers to shows in the base
\* and in every yielded configuration that refers to the same object.
C10_TopLevelIsolated ==
    [][/\ (Mutated /\ lastMut'.kind = "key") => OthersUnchanged(lastMut'.j)
       /\ (Mutated /\ lastMut'.kind = "nested") =>
             \A a \in {systemConfig} \cup {yielded[k] : k \in 1 .. Len(yielded)} :
                 dicts[a]["geom"] = dicts[yielded[lastMut'.j]]["geom"]
                     => ViewNext(a)["geom"] = ViewNext(yielded[lastMut'.j])["geom"]
      ]_vars

\* C10 witness: two configurations were yielded, then a top-level key of the
\* first was assigned, and later its geometry was changed in place.
C10_Witness ==
    /\ Len(yielded) = 2 /\ muts = 2 /\ lastMut = [j |-> 1, kind |-> "nested"]
    /\ dicts[yielded[1]]["c"] # dicts[systemConfig]["c"]
    /\ View(systemConfig)["geom"] = 7

\* ======================================================================
\* Properties of the lazy output (checked under Spec)
\* ======================================================================

\* The first subproblem whose solve does not succeed (N + 1 when all do)
FirstBad == CHOOSE k \in 1 .. Len(freqs) + 1 :
                /\ k <= Len(freqs) => fate[k] # "ok"
                /\ \A m \in 1 .. k - 1 : fate[m] = "ok"

\* No position has two jobs and no job completed twice
NoRetry ==
    /\ \A a, b \in 1 .. Len(jobs) : jobs[a].pos = jobs[b].pos => a = b
    /\ \A a, b \in 1 .. Len(completed) : completed[a] = completed[b] => a = b

\* C11: in parallel mode, when the job of subproblem i fails and the jobs
\* before it succeed, the output delivers the elements before i in order, the
\* failure is raised exactly when element i is pulled (not while the caller is
\* still before i, not at the end of a full consumption), nothing is delivered
\* after it, and no job runs twice.
C11_FailureAtItsElement ==
    mode = "par" =>
        /\ NoRetry
        /\ \A k \in 1 .. Len(out) : k < FirstBad /\ out[k] = Mul(scaleTerm, jobs[JobFor(k)].val)
        /\ pc = "iter" => err = "none"
        /\ err = "SolveError" => (pc = "done" /\ nxt = FirstBad /\ Len(out) = FirstBad - 1
                                 /\ fate[FirstBad] = "fail")
        /\ (pc = "done" /\ err = "none") => (FirstBad = Len(freqs) + 1 /\ Len(out) = Len(freqs))

\* C11 witness: the second job failed, and did so before the first one
\* succeeded; the caller got element 1 and then the failure.
C11_Witness ==
    /\ mode = "par" /\ fate = << "ok", "fail" >> /\ completed = << 2, 1 >>
    /\ Len(out) = 1 /\ err = "SolveError"

\* The flag as the call reads it: true when it was never configured
FlagOn == _parallel = None \/ _parallel = Some(TRUE)

\* C12: a multiply call runs in parallel mode exactly when the worker-pool
\* facility is available and the flag is true (unset counts as true); without
\* the facility it is sequential whatever the flag; a parallel call creates a
\* pool and a sequential call never has one, neither at the call nor while its
\* output is consumed.
C12_ParallelIffAvailableAndFlag ==
    [][/\ calls' = calls + 1 =>
             /\ mode' = (IF PARALLEL /\ FlagOn THEN "par" ELSE "seq")
             /\ ~PARALLEL => mode' = "seq"
             /\ mode' = "par" => pool' = "open"
       /\ mode' = "seq" => (pool' = "none" /\ jobs' = << >> /\ plist' = << >>)
      ]_vars

\* C12 witness: without the facility and with the flag set to true, a call ran
\* sequentially to its end, with no pool.
C12_Witness ==
    /\ ~PARALLEL /\ _parallel = Some(TRUE) /\ calls = 1
    /\ mode = "seq" /\ pc = "done" /\ Len(out) = 2 /\ pool = "none"

\* ======================================================================
\* Properties of the cache's lifecycle (checked under SpecLife)
\* ======================================================================

\* The step is an access of subProblems, by the caller or by multiply
AccessStep == AccessSubProblems \/ MultiFreq_mul

\* The cache after the step holds nothing or one complete list of live instances
EmptyOrMaterialized ==
    \/ _subProblems' = None
    \/ /\ Len(_subProblems'[1]) = Len(freqs)
       /\ IdsOf(_subProblems'[1]) \subseteq DOMAIN objs'

\* C13: the cache is EMPTY or MATERIALIZED (a complete list); it becomes
\* MATERIALIZED only by an access of subProblems that returned, and every such
\* access leaves it MATERIALIZED; a step that changes a MATERIALIZED cache is
\* the invalidation and leaves it EMPTY: no access, multiply call, submission,
\* worker, pull or fan-out step clears or replaces the list.
C13_CacheStates ==
    [][/\ EmptyOrMaterialized
       /\ (_subProblems = None /\ _subProblems' # None) => (AccessStep /\ lastErr' = "none")
       /\ (AccessStep /\ lastErr' = "none") => _subProblems' # None
       /\ (_subProblems # None /\ _subProblems' # _subProblems) =>
             (Invalidate /\ _subProblems' = None)
      ]_vars

\* C13 witness: the materialized list survived two parallel multiply calls (the second
\* consumed to its end) and a complete fan-out.
C13_Witness ==
    /\ _subProblems # None /\ Len(_subProblems[1]) = 2 /\ accesses = 2 /\ calls = 2
    /\ mode = "par" /\ pc = "done" /\ Len(out) = 2
    /\ Len(yielded) = 2 /\ ~gen.active
    /\ _subProblems[1] = subs

\* ======================================================================
\* Properties of the scheduling of a multiply call (checked under Spec)
\* ======================================================================

\* C14: in parallel mode the call returns without waiting for a job: once the
\* jobs are submitted, nothing stops the call from returning, whatever the
\* state of the jobs (the waiting happens in the pulls).
C14_ReturnsWithoutWaiting ==
    (mode = "par" /\ pc = "join") => ENABLED PoolJoin

\* A result has been asked for, or the consumer is about to ask for one
Retrieving == pc = "iter" \/ Len(out) > 0 \/ err = "SolveError" \/ err = "TimeoutError"

\* C15: in parallel mode, from the moment the first result can be retrieved
\* and however many elements the caller has pulled since, exactly one job per
\* subproblem has been submitted, in subproblem order.
C15_AllSubmittedFirst ==
    (mode = "par" /\ Retrieving) =>
        /\ Len(jobs) = Len(freqs) /\ Len(plist) = Len(freqs)
        /\ \A k \in 1 .. Len(freqs) : jobs[plist[k]].pos = k

\* C15 witness: two subproblems, both jobs submitted and finished, and the
\* caller has not pulled anything yet.
C15_Witness ==
    /\ mode = "par" /\ pc = "iter" /\ nxt = 1 /\ out = << >>
    /\ Len(freqs) = 2 /\ Len(jobs) = 2

\* The positions of the current call whose instance is solved on by the step
SolvedByStep == {k \in 1 .. Len(subs) : objs'[subs[k]].solves # objs[subs[k]].solves}

\* The step is a pull that reached the solve of its element: the element was
\* delivered, or its solve raised, or its solve never returns
PullSolved ==
    \/ nxt' = nxt + 1
    \/ err = "none" /\ err' = "SolveError"
    \/ pc = "iter" /\ pc' = "hung"

\* C16: in sequential mode the call itself solves nothing (the instances it
\* finds keep their solve counts, those it builds have none); afterwards the
\* only steps that solve are the pulls, the pull of element i solving once on
\* subproblem i, i being the number of elements delivered so far plus one; a
\* pull that delivers nothing for want of a subproblem or of a right-hand side
\* solves nothing.
C16_SolveOnPull ==
    [][/\ (calls' = calls + 1 /\ mode' = "seq") =>
             \A d \in DOMAIN objs' :
                 objs'[d].solves = IF d \in DOMAIN objs THEN objs[d].solves ELSE 0
       /\ (mode = "seq" /\ calls' = calls) =>
             IF PullSolved
             THEN /\ nxt = Len(out) + 1
                  /\ SolvedByStep = {nxt}
                  /\ objs'[subs[nxt]].solves = objs[subs[nxt]].solves + 1
             ELSE SolvedByStep = {} /\ out' = out
      ]_vars

\* C16 witness: the first sequential call on a wrapper of two subproblems, one
\* element pulled: one solve on the first subproblem, none on the second.
C16_Witness ==
    /\ mode = "seq" /\ calls = 1 /\ pc = "iter" /\ Len(subs) = 2 /\ Len(out) = 1
    /\ objs[subs[1]].solves = 1 /\ objs[subs[2]].solves = 0

\* ======================================================================
\* Properties of the fan-out, continued (checked under SpecFan)
\* ======================================================================

\* The step yields a configuration
Yields == Len(yielded') = Len(yielded) + 1

\* The addresses of the configurations yielded so far
YieldedSet == {yielded[k] : k \in 1 .. Len(yielded)}

\* C17: the k-th configuration yielded is a new dict that reads as the base
\* does at that moment, except that freq is freqs[k] (whether or not the base
\* has a freq of its own); yielding it changes neither the base nor any
\* configuration yielded before; the generator ends after exactly one
\* configuration per frequency.
C17_FanOut ==
    [][/\ Yields =>
             LET k == Len(yielded')
                 new == yielded'[k]
             IN  /\ SubSeq(yielded', 1, k - 1) = yielded
                 /\ new \notin YieldedSet \cup {systemConfig}
                 /\ DOMAIN dicts'[new] = DOMAIN dicts[systemConfig] \cup {"freq"}
                 /\ \A key \in DOMAIN dicts'[new] :
                        ViewNext(new)[key] = IF key = "freq" THEN freqs[k]
                                             ELSE View(systemConfig)[key]
                 /\ \A a \in YieldedSet \cup {systemConfig} : ViewNext(a) = View(a)
       /\ (gen.active /\ ~gen'.active) => (Len(yielded) = Len(freqs) /\ yielded' = yielded)
      ]_vars

\* C17 witness: a base with a freq of its own, two frequencies: the generator
\* is exhausted, both configurations carry their frequency, the base its own.
C17_Witness ==
    /\ ~gen.active /\ Len(yielded) = 2 /\ muts = 0 /\ freqs = << 1, 2 >>
    /\ "freq" \in DOMAIN dicts[systemConfig] /\ dicts[systemConfig]["freq"] = 3
    /\ dicts[yielded[1]]["freq"] = 1 /\ dicts[yielded[2]]["freq"] = 2

\* ======================================================================
\* Properties of a failing materialization (checked under SpecLife)
\* ======================================================================

\* The overrides whose configuration the constructor raises for
RaisingAt == {k \in 1 .. Len(freqs) : freqs[k] \in ctorRaises}

\* What an access of an EMPTY cache must raise, and the number of constructor
\* calls it must make when it starts from the first override
ExpectedErr == IF ~hasSpUpdates THEN "NotImplementedError"
               ELSE IF RaisingAt # {} THEN "CtorError" ELSE "none"
ExpectedCtor == IF ~hasSpUpdates THEN 0
                ELSE IF RaisingAt # {}
                     THEN CHOOSE k \in RaisingAt : \A m \in RaisingAt : k <= m
                     ELSE Len(freqs)

\* C18: an access of subProblems that finds the cache EMPTY raises at once
\* when spUpdates is not implemented or the constructor raises for one of the
\* configurations (for multiply: the call ends with that error, nothing
\* submitted or delivered); the cache is then still EMPTY, no instance built
\* before the error is kept and no configuration dict is left behind; and
\* every such access, the one after a failure included, starts again from the
\* first override.
C18_FailedAccessLeavesEmpty ==
    [][/\ lastErr' # "none" => _subProblems' = None
       /\ (AccessStep /\ _subProblems = None) =>
             /\ lastErr' = ExpectedErr
             /\ ctorLast' = ExpectedCtor
             /\ lastErr' # "none" =>
                   /\ DOMAIN objs' \subseteq DOMAIN objs
                   /\ dicts' = dicts
                   /\ calls' = calls + 1 =>
                         (pc' = "done" /\ err' = lastErr' /\ jobs' = << >> /\ out' = << >>)
             /\ lastErr' = "none" =>
                   /\ Len(_subProblems'[1]) = Len(freqs)
                   /\ \A k \in 1 .. Len(freqs) :
                         /\ _subProblems'[1][k] \notin DOMAIN objs
                         /\ objs'[_subProblems'[1][k]] = disc([freq |-> freqs[k], c |-> 1])
      ]_vars

\* C18 witness: the constructor raised for the second of two configurations,
\* then recovered, and the next access built both subproblems.
C18_Witness ==
    /\ retried /\ lastErr = "none" /\ ctorLast = 2
    /\ _subProblems # None /\ Len(_subProblems[1]) = 2 /\ freqs = << 1, 2 >>

\* ======================================================================
\* Properties of the solver caches across calls (checked under Spec)
\* ======================================================================

\* The cached instance job j was copied from
Original(j) == objs[subs[jobs[j].pos]]

\* In every state: an instance is factorized at most once however many calls
\* solved on it; a job that has run on the copy of an instance that has no
\* solver has created the copy's solver, and the instance still has none.
SolverCaches ==
    /\ \A d \in DOMAIN objs : objs[d].created <= 1 /\ (objs[d].solves > 0 => objs[d].created = 1)
    /\ mode = "par" =>
          \A j \in 1 .. Len(jobs) :
              (jobs[j].st # "pending" /\ ~Original(j).hasAinv) =>
                  /\ jobs[j].sub.hasAinv /\ jobs[j].sub.created = 1
                  /\ Original(j).created = 0

\* C19: a parallel call creates a pool of its own, with no job in it; neither
\* the call nor any step of its submission, its workers or its consumption
\* changes an instance of the cache (solver included); so a subproblem without
\* a solver is factorized by the worker of every parallel call, on a copy,
\* whereas sequential calls factorize an instance once for all.
C19_ParallelKeepsSolverCaches ==
    /\ []SolverCaches
    /\ [][/\ (calls' = calls + 1 /\ mode' = "par") =>
                 /\ pool' = "open" /\ jobs' = << >>
                 /\ \A d \in DOMAIN objs' :
                        objs'[d] = IF d \in DOMAIN objs THEN objs[d]
                                   ELSE [objs'[d] EXCEPT !.hasAinv = FALSE, !.created = 0]
          /\ (mode = "par" /\ calls' = calls) => objs' = objs
         ]_vars

\* C19 witness: two parallel calls and no sequential one; in the second, both
\* workers factorized their copy, the two cached instances have no solver.
C19_Witness ==
    /\ calls = 2 /\ mode = "par" /\ pc = "done" /\ Len(out) = 2
    /\ done["seq"] = None /\ _parallel = None
    /\ \A j \in 1 .. 2 : jobs[j].sub.created = 1 /\ ~Original(j).hasAinv

====
